---- MODULE Spec2Model ----
(***************************************************************************)
(* Byte-level model of the Bitcask storage engine of src/storage/bitcask.rs *)
(* (BitCask, Log, KeyDir, ScanIterator).  Files are sequences of bytes,     *)
(* the KeyDir is a function from keys to <<value_pos, value_len>>.          *)
(***************************************************************************)
EXTENDS Integers, Sequences, FiniteSets, TLC

\* ---------------------------------------------------------------- bounds
MaxOps == 3          \* set / delete / interrupted appends per behaviour
MaxCompacts == 2     \* compact() calls per behaviour
MaxCrash == 1        \* interrupted appends per behaviour (SpecCrash)
MaxFail == 1         \* failed appends per behaviour (SpecFail)
LenCap == 16777216   \* decoded lengths saturate here; every file is far shorter

\* ---------------------------------------------------------------- inputs
Keys == {<<>>, <<0>>, <<0, 1>>}
Values == {<<>>, <<1>>}
Ratios == {<<0, 1>>, <<1, 2>>, <<1, 1>>}    \* garbage_ratio as <<num, den>>

\* Option<T>: None is <<>>, Some(x) is <<x>>
None == <<>>
Some(x) == <<x>>

\* ------------------------------------------------------- integer encodings
\* u32::to_be_bytes
to_be_bytes(n) ==
    << (n \div 16777216) % 256, (n \div 65536) % 256, (n \div 256) % 256, n % 256 >>

\* i32::to_be_bytes (two's complement: the bytes of n < 0 are the
\* complemented bytes of -(n+1))
i32_to_be_bytes(n) ==
    IF n >= 0 THEN to_be_bytes(n)
    ELSE LET b == to_be_bytes(-(n + 1))
         IN << 255 - b[1], 255 - b[2], 255 - b[3], 255 - b[4] >>

\* u32::from_be_bytes, saturated at LenCap
u32_from_be_bytes(b) ==
    IF b[1] = 0 THEN b[2] * 65536 + b[3] * 256 + b[4] ELSE LenCap

\* match i32::from_be_bytes(..) { l if l >= 0 => Some(l as u32), _ => None }
value_len_or_tombstone_of(b) ==
    IF b[1] >= 128 THEN None ELSE Some(u32_from_be_bytes(b))

\* ------------------------------------------------------------------ KeyDir
\* type KeyDir = BTreeMap<Vec<u8>, (u64, u32)>
EmptyKeyDir == [k \in {} |-> <<0, 0>>]

keydir_insert(kd, key, entry) ==
    [k \in (DOMAIN kd) \cup {key} |-> IF k = key THEN entry ELSE kd[k]]

keydir_remove(kd, key) ==
    [k \in (DOMAIN kd) \ {key} |-> kd[k]]

\* mutant of KeyLess: descending order
RECURSIVE KeyLess_desc(_, _)
KeyLess_desc(a, b) ==
    IF a = <<>> THEN FALSE
    ELSE IF b = <<>> THEN TRUE
    ELSE IF a[1] # b[1] THEN a[1] > b[1]
    ELSE KeyLess_desc(Tail(a), Tail(b))

\* Ord for Vec<u8>: lexicographic over the bytes
RECURSIVE KeyLess(_, _)
KeyLess(a, b) ==
    IF b = <<>> THEN FALSE
    ELSE IF a = <<>> THEN TRUE
    ELSE IF a[1] # b[1] THEN a[1] < b[1]
    ELSE KeyLess(Tail(a), Tail(b))

\* BTreeMap iteration order: the keys of S, ascending
RECURSIVE keydir_iter(_)
keydir_iter(S) ==
    IF S = {} THEN <<>>
    ELSE LET m == CHOOSE x \in S : \A y \in S \ {x} : KeyLess(x, y)
         IN <<m>> \o keydir_iter(S \ {m})

\* --------------------------------------------------------------------- Log
Zeros(n) == [i \in 1..n |-> 0]

\* mutant of frame_bytes: a delete is framed as a Put of the empty value
frame_bytes_empty_put(key, values) ==
    LET key_len == Len(key)
        value_len_or_tombstone == IF values = None THEN 0 ELSE Len(values[1])
    IN to_be_bytes(key_len) \o i32_to_be_bytes(value_len_or_tombstone) \o key
         \o (IF values = None THEN <<>> ELSE values[1])

\* the bytes Log::write_entry hands to the BufWriter
frame_bytes(key, values) ==
    LET key_len == Len(key)
        value_len_or_tombstone == IF values = None THEN -1 ELSE Len(values[1])
    IN to_be_bytes(key_len) \o i32_to_be_bytes(value_len_or_tombstone) \o key
         \o (IF values = None THEN <<>> ELSE values[1])

\* mutant of write_entry: the frame goes in front of the old contents
write_entry_front(f, key, values) ==
    LET key_len == Len(key)
        value_len == IF values = None THEN 0 ELSE Len(values[1])
        len == 4 + 4 + key_len + value_len
    IN [ok |-> TRUE,
        file |-> frame_bytes(key, values) \o f,
        value_pos |-> len - value_len,
        value_len |-> value_len]

\* Log::write_entry on a file with contents f, all I/O succeeding
write_entry(f, key, values) ==
    LET key_len == Len(key)
        value_len == IF values = None THEN 0 ELSE Len(values[1])
        len == 4 + 4 + key_len + value_len
        pos == Len(f)
    IN [ok |-> TRUE,
        file |-> f \o frame_bytes(key, values),
        value_pos |-> pos + len - value_len,
        value_len |-> value_len]

\* Log::write_entry when a step fails (seek, write_all or flush returns Err):
\* the first n bytes of the frame have reached the file, n \in 0..len
write_entry_err(f, key, values, n) ==
    [ok |-> FALSE,
     file |-> f \o SubSeq(frame_bytes(key, values), 1, n),
     value_pos |-> 0,
     value_len |-> 0]

\* Log::read_entry: seek to value_pos, read_exact value_len bytes
read_entry(f, value_pos, value_len) ==
    IF value_len = 0 THEN [ok |-> TRUE, value |-> <<>>]
    ELSE IF value_pos + value_len <= Len(f)
         THEN [ok |-> TRUE, value |-> SubSeq(f, value_pos + 1, value_pos + value_len)]
         ELSE [ok |-> FALSE, value |-> <<>>]

\* The record-reading closure of Log::build_keydir at offset pos.
\* kind "eof" is Err(UnexpectedEof).  The result of read_exact(&mut key) is
\* ignored by the code: a short key keeps the bytes that were read, followed
\* by the zeros of vec![0; key_len].  A key longer than the whole file is
\* not built (long = TRUE): it cannot equal any key of the KeyDir.
read_record(f, pos) ==
    LET file_len == Len(f)
        avail == file_len - pos
    IN IF avail < 4 THEN [kind |-> "eof"]
       ELSE IF avail < 8 THEN [kind |-> "eof"]
       ELSE
         LET key_len == u32_from_be_bytes(SubSeq(f, pos + 1, pos + 4))
             value_len_or_tombstone ==
                 value_len_or_tombstone_of(SubSeq(f, pos + 5, pos + 8))
             value_pos == pos + 4 + 4 + key_len
             long == key_len > file_len
             key == IF long THEN <<>>
                    ELSE IF value_pos <= file_len
                         THEN SubSeq(f, pos + 9, value_pos)
                         ELSE SubSeq(f, pos + 9, file_len) \o Zeros(value_pos - file_len)
         IN IF value_len_or_tombstone # None
            THEN IF value_len_or_tombstone[1] + value_pos > file_len
                 THEN [kind |-> "eof"]
                 ELSE [kind |-> "put", key |-> key, value_pos |-> value_pos,
                       value_len |-> value_len_or_tombstone[1]]
            ELSE [kind |-> "tombstone", key |-> key, long |-> long,
                  value_pos |-> value_pos]

\* Ok((key, value_pos, Some(value_len))) arm
put_arm(kd, r) == keydir_insert(kd, r.key, <<r.value_pos, r.value_len>>)

\* mutant of tombstone_arm: the scan does not remove the key
tombstone_arm_keep(kd, r) == kd

\* Ok((key, value_pos, None)) arm
tombstone_arm(kd, r) == IF r.long THEN kd ELSE keydir_remove(kd, r.key)

\* mutant of eof_arm: the truncation cuts one byte too many
eof_arm_short(f, pos) == SubSeq(f, 1, pos - 1)

\* Err(UnexpectedEof) arm: self.file.set_len(pos)
eof_arm(f, pos) == SubSeq(f, 1, pos)

\* the while loop of Log::build_keydir
RECURSIVE build_from(_, _, _)
build_from(f, pos, kd) ==
    IF ~(pos < Len(f)) THEN [file |-> f, keydir |-> kd]
    ELSE LET r == read_record(f, pos)
         IN CASE r.kind = "put" ->
                   build_from(f, r.value_pos + r.value_len, put_arm(kd, r))
              [] r.kind = "tombstone" ->
                   build_from(f, r.value_pos, tombstone_arm(kd, r))
              [] OTHER -> [file |-> eof_arm(f, pos), keydir |-> kd]

\* Log::build_keydir: the rebuilt KeyDir and the file as it leaves it
build_keydir(f) == build_from(f, 0, EmptyKeyDir)

\* ------------------------------------------------------------------ Engine
\* BitCask::get
get(kd, f, key) ==
    IF key \in DOMAIN kd
    THEN LET r == read_entry(f, kd[key][1], kd[key][2])
         IN [ok |-> r.ok, value |-> IF r.ok THEN Some(r.value) ELSE None]
    ELSE [ok |-> TRUE, value |-> None]

\* BitCask::scan(..) collected: one item per KeyDir key, ascending
scan(kd, f) ==
    LET ks == keydir_iter(DOMAIN kd)
    IN [i \in 1..Len(ks) |->
          LET r == read_entry(f, kd[ks[i]][1], kd[ks[i]][2])
          IN [ok |-> r.ok, key |-> ks[i], value |-> r.value]]

\* BitCask::status
RECURSIVE size_fold(_, _)
size_fold(kd, ks) ==
    IF ks = <<>> THEN 0
    ELSE Len(ks[1]) + kd[ks[1]][2] + size_fold(kd, Tail(ks))

\* mutant of status: one 4-byte length per live key instead of the header
status_half_header(kd, f) ==
    LET keys == Cardinality(DOMAIN kd)
        total_disk_size == Len(f)
        size == size_fold(kd, keydir_iter(DOMAIN kd))
        live_disk_size == size + 4 * keys
        garbage_disk_size == total_disk_size - live_disk_size
    IN [name |-> "Bitcask", keys |-> keys, size |-> size,
        total_disk_size |-> total_disk_size,
        live_disk_size |-> live_disk_size,
        garbage_disk_size |-> garbage_disk_size]

status(kd, f) ==
    LET keys == Cardinality(DOMAIN kd)
        total_disk_size == Len(f)
        size == size_fold(kd, keydir_iter(DOMAIN kd))
        live_disk_size == size + 8 * keys
        garbage_disk_size == total_disk_size - live_disk_size
    IN [name |-> "Bitcask", keys |-> keys, size |-> size,
        total_disk_size |-> total_disk_size,
        live_disk_size |-> live_disk_size,
        garbage_disk_size |-> garbage_disk_size]

\* mutant of set_keydir: an existing entry is kept
set_keydir_first(kd, key, we) ==
    IF we.ok /\ key \notin DOMAIN kd
    THEN keydir_insert(kd, key, <<we.value_pos, we.value_len>>) ELSE kd

\* BitCask::set after write_entry returned we: `?` returns on Err, before
\* the insert
set_keydir(kd, key, we) ==
    IF we.ok THEN keydir_insert(kd, key, <<we.value_pos, we.value_len>>) ELSE kd

\* mutant of delete_keydir: the key is removed before the result is looked at
delete_keydir_eager(kd, key, we) == keydir_remove(kd, key)

\* BitCask::delete after write_entry returned we: `?` returns on Err, before
\* the remove
delete_keydir(kd, key, we) ==
    IF we.ok THEN keydir_remove(kd, key) ELSE kd

\* The for loop of BitCask::write_log.  log is the contents of the Log opened
\* at the temporary path; both the read and the write go through that Log.
RECURSIVE write_log_loop(_, _, _, _)
write_log_loop(old_kd, ks, log, kd) ==
    IF ks = <<>> THEN [ok |-> TRUE, log |-> log, keydir |-> kd]
    ELSE LET key == ks[1]
             value == read_entry(log, old_kd[key][1], old_kd[key][2])
         IN IF ~value.ok THEN [ok |-> FALSE, log |-> log, keydir |-> kd]
            ELSE LET we == write_entry(log, key, Some(value.value))
                 IN write_log_loop(old_kd, Tail(ks), we.file,
                        keydir_insert(kd, key, <<we.value_pos, we.value_len>>))

\* BitCask::write_log: Log::new(path) opens the file at the temporary path
\* with create(true) and without truncate, so it starts with the contents t
write_log(old_kd, t) ==
    write_log_loop(old_kd, keydir_iter(DOMAIN old_kd), t, EmptyKeyDir)

\* mutant of compact: on Err the engine keeps the KeyDir built so far
compact_partial(kd, f, t) ==
    LET w == write_log(kd, t)
    IN IF w.ok
       THEN [ok |-> TRUE, path |-> w.log, attached |-> TRUE,
             file |-> w.log, tmp |-> <<>>, keydir |-> w.keydir]
       ELSE [ok |-> FALSE, path |-> <<>>, attached |-> FALSE,
             file |-> f, tmp |-> w.log, keydir |-> w.keydir]

\* BitCask::compact: the disk and the engine after the call.  file is the
\* contents of the file self.log holds.  When ok, path is the contents of the
\* file the rename put at the original path, and attached tells whether that
\* is the file self.log holds (self.log = new_log).  On Err nothing was
\* renamed and self.log is the Log it was.
compact(kd, f, t) ==
    LET w == write_log(kd, t)
    IN IF w.ok
       THEN [ok |-> TRUE, path |-> w.log, attached |-> TRUE,
             file |-> w.log, tmp |-> <<>>, keydir |-> w.keydir]
       ELSE [ok |-> FALSE, path |-> <<>>, attached |-> FALSE,
             file |-> f, tmp |-> w.log, keydir |-> kd]

\* the test of BitCask::new_with_compact:
\* garbage_disk_size as f64 / total_disk_size as f64 > garbage_ratio
\* (0.0 / 0.0 is NaN, and NaN > r is false)
over_ratio(st, r) ==
    /\ st.total_disk_size # 0
    /\ st.garbage_disk_size * r[2] > r[1] * st.total_disk_size

\* ------------------------------------------------------------------- state
VARIABLES
    file,       \* bytes of the file the engine's Log holds open
    disk,       \* bytes of the file at the engine's path
    attached,   \* the file the Log holds is the file at the engine's path
    tmp,        \* bytes of the file at the ".new" path (<<>>: absent or empty)
    opened,     \* an engine exists
    keydir,     \* its KeyDir
    last,       \* the last call and what it returned
    oracle,     \* per key, the value of the latest completed set / None
    plain,      \* only open, set and delete have taken effect so far
    torn,       \* the interrupted append the file ends with, if any
    hist,       \* the completed sets and deletes in call order, while plain
    wl,         \* lengths handed to write_entry and what it computes (SpecLen)
    nops, ncompact, ncrash, nfail

vars == <<file, disk, attached, tmp, opened, keydir, last, oracle, plain, torn,
          hist, wl, nops, ncompact, ncrash, nfail>>

Call(op, ok, inner, reopen) ==
    [op |-> op, ok |-> ok, inner |-> inner, reopen |-> reopen,
     key |-> None, ratio |-> None]

\* a call of set or delete on key
CallOn(op, ok, key) == [Call(op, ok, "none", FALSE) EXCEPT !.key = Some(key)]

\* a call of new_with_compact with garbage_ratio r
CallRatio(inner, reopen, r) ==
    [Call("open_with_compact", TRUE, inner, reopen) EXCEPT !.ratio = Some(r)]

\* mutant of disk_after: the Log's file is never the file at the path
disk_after_detached(att, d, f2) == d

\* the file at the path after the Log's file became f2
disk_after(att, d, f2) == IF att THEN f2 ELSE d

\* hist after one more completed call
hist_after(h, pl, key, values) ==
    IF pl THEN Append(h, [key |-> key, values |-> values]) ELSE <<>>

Init ==
    /\ file = <<>>
    /\ tmp = <<>>
    /\ opened = FALSE
    /\ keydir = EmptyKeyDir
    /\ last = Call("none", TRUE, "none", FALSE)
    /\ oracle = [k \in Keys |-> None]
    /\ plain = TRUE
    /\ torn = None
    /\ hist = <<>>
    /\ wl = None
    /\ disk = <<>>
    /\ attached = TRUE
    /\ nops = 0
    /\ ncompact = 0
    /\ ncrash = 0
    /\ nfail = 0

\* BitCask::new(path); an engine that exists is dropped first
Open ==
    LET b == build_keydir(disk)
    IN /\ file' = b.file
       /\ disk' = b.file
       /\ attached' = TRUE
       /\ keydir' = b.keydir
       /\ opened' = TRUE
       /\ last' = Call("open", TRUE, "none", opened)
       /\ torn' = IF opened THEN None ELSE torn
       /\ UNCHANGED <<tmp, oracle, plain, hist, wl, nops, ncompact, ncrash, nfail>>

\* BitCask::new_with_compact(path, r); the result of compact() is discarded
OpenWithCompact(r) ==
    LET b == build_keydir(disk)
        st == status(b.keydir, b.file)
        c == compact(b.keydir, b.file, tmp)
    IN /\ ncompact < MaxCompacts
       /\ opened' = TRUE
       /\ torn' = IF opened THEN None ELSE torn
       /\ IF over_ratio(st, r)
          THEN /\ file' = c.file
               /\ disk' = IF c.ok THEN c.path ELSE b.file
               /\ attached' = (c.ok => c.attached)
               /\ tmp' = c.tmp
               /\ keydir' = c.keydir
               /\ last' = CallRatio(IF c.ok THEN "ok" ELSE "err", opened, r)
               /\ plain' = (plain /\ ~c.ok)
               /\ hist' = IF plain' THEN hist ELSE <<>>
               /\ ncompact' = ncompact + 1
          ELSE /\ file' = b.file
               /\ disk' = b.file
               /\ attached' = TRUE
               /\ keydir' = b.keydir
               /\ last' = CallRatio("none", opened, r)
               /\ UNCHANGED <<tmp, plain, hist, ncompact>>
       /\ UNCHANGED <<oracle, wl, nops, ncrash, nfail>>

\* BitCask::set(key, value), the append succeeding
Set(key, value) ==
    LET we == write_entry(file, key, Some(value))
    IN /\ opened
       /\ nops < MaxOps
       /\ file' = we.file
       /\ disk' = disk_after(attached, disk, we.file)
       /\ keydir' = set_keydir(keydir, key, we)
       /\ last' = CallOn("set", TRUE, key)
       /\ oracle' = [oracle EXCEPT ![key] = Some(value)]
       /\ hist' = hist_after(hist, plain, key, Some(value))
       /\ torn' = None
       /\ nops' = nops + 1
       /\ UNCHANGED <<attached, tmp, opened, plain, wl, ncompact, ncrash, nfail>>

\* BitCask::delete(key), the append succeeding
Delete(key) ==
    LET we == write_entry(file, key, None)
    IN /\ opened
       /\ nops < MaxOps
       /\ file' = we.file
       /\ disk' = disk_after(attached, disk, we.file)
       /\ keydir' = delete_keydir(keydir, key, we)
       /\ last' = CallOn("delete", TRUE, key)
       /\ oracle' = [oracle EXCEPT ![key] = None]
       /\ hist' = hist_after(hist, plain, key, None)
       /\ torn' = None
       /\ nops' = nops + 1
       /\ UNCHANGED <<attached, tmp, opened, plain, wl, ncompact, ncrash, nfail>>

\* BitCask::compact()
Compact ==
    LET c == compact(keydir, file, tmp)
    IN /\ opened
       /\ ncompact < MaxCompacts
       /\ file' = c.file
       /\ disk' = IF c.ok THEN c.path ELSE disk
       /\ attached' = IF c.ok THEN c.attached ELSE attached
       /\ tmp' = c.tmp
       /\ keydir' = c.keydir
       /\ last' = Call("compact", c.ok, "none", FALSE)
       /\ plain' = (plain /\ ~c.ok)
       /\ hist' = IF plain' THEN hist ELSE <<>>
       /\ torn' = None
       /\ ncompact' = ncompact + 1
       /\ UNCHANGED <<opened, oracle, wl, nops, ncrash, nfail>>

\* The process dies while set / delete appends: only the first n bytes of the
\* frame, 0 < n < frame length, reach the file, and the engine is gone.
Crash(key, values, n) ==
    LET fr == frame_bytes(key, values)
    IN /\ opened
       /\ nops < MaxOps
       /\ ncrash < MaxCrash
       /\ n \in 1..(Len(fr) - 1)
       /\ file' = file \o SubSeq(fr, 1, n)
       /\ disk' = disk_after(attached, disk, file \o SubSeq(fr, 1, n))
       /\ opened' = FALSE
       /\ keydir' = EmptyKeyDir
       /\ last' = Call("crash", FALSE, "none", FALSE)
       /\ plain' = FALSE
       /\ hist' = <<>>
       /\ torn' = Some([base |-> file, key |-> key, values |-> values, n |-> n])
       /\ nops' = nops + 1
       /\ ncrash' = ncrash + 1
       /\ UNCHANGED <<attached, tmp, oracle, wl, ncompact, nfail>>

Next ==
    \/ Open
    \/ \E r \in Ratios : OpenWithCompact(r)
    \/ \E k \in Keys, v \in Values : Set(k, v)
    \/ \E k \in Keys : Delete(k)
    \/ Compact

Spec == Init /\ [][Next]_vars

\* the same engine when the process may also die during an append
NextCrash ==
    \/ Next
    \/ \E k \in Keys, v \in Values, n \in 1..12 : Crash(k, Some(v), n)
    \/ \E k \in Keys, n \in 1..12 : Crash(k, None, n)

SpecCrash == Init /\ [][NextCrash]_vars

\* open, set, delete and compact on files that may end in a partial record
NextTorn ==
    \/ Open
    \/ \E k \in Keys, v \in Values : Set(k, v)
    \/ \E k \in Keys : Delete(k)
    \/ Compact
    \/ \E k \in Keys, v \in Values, n \in 1..12 : Crash(k, Some(v), n)
    \/ \E k \in Keys, n \in 1..12 : Crash(k, None, n)

SpecTorn == Init /\ [][NextTorn]_vars


\* ------------------------------------------------ failing appends (SpecFail)
\* BitCask::set(key, value), write_entry returning Err after n bytes
SetFail(key, value, n) ==
    LET we == write_entry_err(file, key, Some(value), n)
    IN /\ opened
       /\ nops < MaxOps
       /\ nfail < MaxFail
       /\ n \in 0..Len(frame_bytes(key, Some(value)))
       /\ file' = we.file
       /\ disk' = disk_after(attached, disk, we.file)
       /\ keydir' = set_keydir(keydir, key, we)
       /\ last' = CallOn("set", FALSE, key)
       /\ plain' = FALSE
       /\ hist' = <<>>
       /\ torn' = None
       /\ nops' = nops + 1
       /\ nfail' = nfail + 1
       /\ UNCHANGED <<attached, tmp, opened, oracle, wl, ncompact, ncrash>>

\* BitCask::delete(key), write_entry returning Err after n bytes
DeleteFail(key, n) ==
    LET we == write_entry_err(file, key, None, n)
    IN /\ opened
       /\ nops < MaxOps
       /\ nfail < MaxFail
       /\ n \in 0..Len(frame_bytes(key, None))
       /\ file' = we.file
       /\ disk' = disk_after(attached, disk, we.file)
       /\ keydir' = delete_keydir(keydir, key, we)
       /\ last' = CallOn("delete", FALSE, key)
       /\ plain' = FALSE
       /\ hist' = <<>>
       /\ torn' = None
       /\ nops' = nops + 1
       /\ nfail' = nfail + 1
       /\ UNCHANGED <<attached, tmp, opened, oracle, wl, ncompact, ncrash>>

NextFail ==
    \/ Open
    \/ \E k \in Keys, v \in Values : Set(k, v)
    \/ \E k \in Keys : Delete(k)
    \/ \E k \in Keys, v \in Values, n \in 0..11 : SetFail(k, v, n)
    \/ \E k \in Keys, n \in 0..10 : DeleteFail(k, n)

SpecFail == Init /\ [][NextFail]_vars

\* ------------------------------------------------- write_entry's arithmetic
\* Log::write_entry computes the frame length in u32 and the returned
\* position in u64.  Numbers of a fixed width are sequences of 16-bit limbs,
\* least significant first: two limbs for u32, four for u64.
Limb == 256 * 256

\* the w-limb number of the integer n, 0 <= n < 2^31
to_limbs(n, w) ==
    [i \in 1..w |-> IF i = 1 THEN n % Limb ELSE IF i = 2 THEN n \div Limb ELSE 0]

\* a as a number of w limbs (u32 as u64)
widen(a, w) == a \o Zeros(w - Len(a))

\* a + b + c in the width of a and b, with the carry out of that width
RECURSIVE add_limbs(_, _, _)
add_limbs(a, b, c) ==
    IF a = <<>> THEN [limbs |-> <<>>, carry |-> c]
    ELSE LET s == a[1] + b[1] + c
             r == add_limbs(Tail(a), Tail(b), s \div Limb)
         IN [limbs |-> <<s % Limb>> \o r.limbs, carry |-> r.carry]

\* a - b - c in the width of a and b, with the borrow out of that width
RECURSIVE sub_limbs(_, _, _)
sub_limbs(a, b, c) ==
    IF a = <<>> THEN [limbs |-> <<>>, carry |-> c]
    ELSE LET d == a[1] - b[1] - c
             r == sub_limbs(Tail(a), Tail(b), IF d < 0 THEN 1 ELSE 0)
         IN [limbs |-> <<(d + Limb) % Limb>> \o r.limbs, carry |-> r.carry]

\* builds of the crate: arithmetic overflow panics with overflow checks
\* (the dev profile) and wraps without them (the release profile)
Builds == {"debug", "release"}

\* lengths of keys and values, 0 .. 2^31 - 1
LenSamples == {0, 1, 65536, 2147483640, 2147483641, 2147483647}

\* end-of-file offsets (u64): empty file, small file, a file of 2^32 bytes
Starts == {<<0, 0, 0, 0>>, <<18, 0, 0, 0>>, <<0, 0, 1, 0>>}

\* Log::write_entry on lengths: key.len() = key_len, values.map(len) =
\* values_len (None for a tombstone), seek(End(0)) = start, all I/O
\* succeeding.  written counts the bytes the write_all calls hand over.
write_entry_u32(start, key_len, values_len, build) ==
    LET key_len_u32 == to_limbs(key_len, 2)
        value_len == to_limbs(IF values_len = None THEN 0 ELSE values_len[1], 2)
        s1 == add_limbs(to_limbs(4 + 4, 2), key_len_u32, 0)
        s2 == add_limbs(s1.limbs, value_len, 0)
        len == s2.limbs
        p1 == add_limbs(start, widen(len, 4), 0)
        p2 == sub_limbs(p1.limbs, widen(value_len, 4), 0)
        overflow == s1.carry + s2.carry + p1.carry + p2.carry > 0
        header == add_limbs(to_limbs(8, 4), widen(key_len_u32, 4), 0)
        written == add_limbs(header.limbs, widen(value_len, 4), 0)
    IN IF overflow /\ build = "debug"
       THEN [panicked |-> TRUE, written |-> to_limbs(0, 4),
             value_pos |-> to_limbs(0, 4), value_len |-> to_limbs(0, 2)]
       ELSE [panicked |-> FALSE, written |-> written.limbs,
             value_pos |-> p2.limbs, value_len |-> value_len]

NoResult ==
    [panicked |-> FALSE, written |-> to_limbs(0, 4),
     value_pos |-> to_limbs(0, 4), value_len |-> to_limbs(0, 2)]

\* no engine; one call of write_entry is about to be made
InitLen ==
    /\ file = <<>>
    /\ tmp = <<>>
    /\ opened = FALSE
    /\ keydir = EmptyKeyDir
    /\ last = Call("none", TRUE, "none", FALSE)
    /\ oracle = [k \in Keys |-> None]
    /\ plain = TRUE
    /\ torn = None
    /\ hist = <<>>
    /\ \E start \in Starts, key_len \in LenSamples,
          values_len \in {None} \cup {Some(n) : n \in LenSamples} :
            wl = Some([done |-> FALSE, build |-> "none", start |-> start,
                       key_len |-> key_len, values_len |-> values_len,
                       result |-> NoResult])
    /\ disk = <<>>
    /\ attached = TRUE
    /\ nops = 0
    /\ ncompact = 0
    /\ ncrash = 0
    /\ nfail = 0

\* Log::write_entry, as built in build
WriteEntryLen(build) ==
    /\ wl # None
    /\ ~wl[1].done
    /\ wl' = Some([wl[1] EXCEPT
                     !.done = TRUE,
                     !.build = build,
                     !.result = write_entry_u32(wl[1].start, wl[1].key_len,
                                                wl[1].values_len, build)])
    /\ UNCHANGED <<file, disk, attached, tmp, opened, keydir, last, oracle,
                   plain, torn, hist, nops, ncompact, ncrash, nfail>>

NextLen == \E build \in Builds : WriteEntryLen(build)

SpecLen == InitLen /\ [][NextLen]_vars

\* ------------------------------------------------------------ observations
\* what a caller observes: every get and the whole scan
Observed ==
    [gets |-> [k \in Keys |-> get(keydir, file, k)], scan |-> scan(keydir, file)]

Status == status(keydir, file)

\* Reference reading of the record frame format (header of two big-endian
\* 32-bit integers, key, value; value length -1 marks a tombstone): the
\* complete frames of f from offset pos, and the offset where they end.
RECURSIVE DecodeFrom(_, _, _)
DecodeFrom(f, pos, acc) ==
    IF Len(f) - pos < 8 THEN [frames |-> acc, end |-> pos]
    ELSE LET kl == u32_from_be_bytes(SubSeq(f, pos + 1, pos + 4))
             vb == SubSeq(f, pos + 5, pos + 8)
             tomb == vb = <<255, 255, 255, 255>>
             vl == IF tomb THEN 0 ELSE u32_from_be_bytes(vb)
             vp == pos + 8 + kl
         IN IF (~tomb /\ vb[1] >= 128) \/ vp + vl > Len(f)
            THEN [frames |-> acc, end |-> pos]
            ELSE DecodeFrom(f, vp + vl,
                     Append(acc, [key |-> SubSeq(f, pos + 9, vp),
                                  values |-> IF tomb THEN None
                                             ELSE Some(SubSeq(f, vp + 1, vp + vl)),
                                  value_pos |-> vp]))

Decode(f) == DecodeFrom(f, 0, <<>>)

\* f is a concatenation of complete frames
WellFormed(f) == Decode(f).end = Len(f)

\* the key/value state a sequence of frames stands for: latest frame wins
RECURSIVE Replay(_, _)
Replay(frames, m) ==
    IF frames = <<>> THEN m
    ELSE Replay(Tail(frames),
                IF frames[1].key \in Keys
                THEN [m EXCEPT ![frames[1].key] = frames[1].values] ELSE m)

LogState(f) == Replay(Decode(f).frames, [k \in Keys |-> None])

\* lexicographic order on byte strings, by the first position that differs
LexLess(a, b) ==
    \E i \in 1..(Len(a) + 1) :
        /\ \A j \in 1..(i - 1) : j <= Len(b) /\ a[j] = b[j]
        /\ \/ i = Len(a) + 1 /\ Len(b) >= i
           \/ i <= Len(a) /\ i <= Len(b) /\ a[i] < b[i]

\* the scan result sc shows exactly the key/value state m, in ascending order
ScanShows(sc, m) ==
    /\ \A i \in 1..Len(sc) :
          sc[i].ok /\ sc[i].key \in Keys /\ m[sc[i].key] = Some(sc[i].value)
    /\ \A k \in Keys : m[k] # None => \E i \in 1..Len(sc) : sc[i].key = k
    /\ \A i \in 1..Len(sc) : \A j \in 1..Len(sc) :
          i < j => LexLess(sc[i].key, sc[j].key)

\* every get shows the key/value state m
GetsShow(m) ==
    \A k \in Keys : get(keydir, file, k) = [ok |-> TRUE, value |-> m[k]]

\* ------------------------------------------------------------------ claims

\* C1: for every history of set and delete operations on an opened engine,
\* compact() leaves every get(k) and the whole scan(..) as they were
\* immediately before the call.
C1_CompactPreservesObserved ==
    [][(plain /\ ncompact = 0 /\ last'.op = "compact")
         => Observed' = Observed]_vars

\* C2: reopen equivalence: after any sequence of set and delete operations,
\* dropping the engine and opening a new one on the same path yields the same
\* get(k) for every key and the same scan(..); the KeyDir rebuilt from the
\* file equals the KeyDir that was maintained incrementally.
C2_ReopenEquivalence ==
    [][(plain /\ opened /\ last'.op = "open")
         => (last'.ok /\ Observed' = Observed /\ keydir' = keydir)]_vars

\* a reopen after sets and deletes that left a live key and dead frames
C2_Witness ==
    /\ plain /\ opened /\ last.op = "open" /\ last.reopen
    /\ DOMAIN keydir # {}
    /\ \E k \in Keys : k \notin DOMAIN keydir
    /\ Status.garbage_disk_size > 0
    /\ nops >= 3

\* C3: crash recovery: when the file is cut strictly inside its last frame
\* (header, key or value; Put or Tombstone), open succeeds and the get/scan
\* state is the state of the log made of all frames before that last frame.
C3_CrashRecovery ==
    (opened /\ last.op = "open" /\ torn # None /\ WellFormed(torn[1].base))
        => /\ last.ok
           /\ GetsShow(LogState(torn[1].base))
           /\ ScanShows(scan(keydir, file), LogState(torn[1].base))

\* C4: last-writer-wins: after any sequence of set and delete operations,
\* get(k) is Some(v) for the value v of the latest set(k, v) when the latest
\* operation on k was a set (empty key and empty value included), and None
\* when it was a delete or k was never set.
C4_LastWriterWins ==
    (plain /\ opened) => GetsShow(oracle)

\* the latest of several operations on one key is what get returns, with the
\* empty key holding the empty value
C4_Witness ==
    /\ plain /\ opened /\ nops >= 3
    /\ oracle[<<>>] = Some(<<>>)
    /\ \E k \in Keys : oracle[k] = Some(<<1>>)
    /\ Status.garbage_disk_size > 0

\* C5: after any sequence of set and delete operations, scan(..) yields keys
\* in strictly ascending lexicographic byte order, exactly the keys whose
\* latest operation was a set (none deleted, none twice), each with the value
\* of its latest set.
C5_ScanSortedConsistent ==
    (plain /\ opened) => ScanShows(scan(keydir, file), oracle)

\* a scan over several live keys next to a deleted one
C5_Witness ==
    /\ plain /\ opened
    /\ Len(scan(keydir, file)) >= 2
    /\ \E k \in Keys : oracle[k] = None /\ Status.garbage_disk_size > 0

\* index of the last frame for key k in frames, 0 when there is none
LastFrameFor(frames, k) ==
    IF \E i \in 1..Len(frames) : frames[i].key = k
    THEN CHOOSE i \in 1..Len(frames) :
            /\ frames[i].key = k
            /\ \A j \in (i + 1)..Len(frames) : frames[j].key # k
    ELSE 0

\* invariant I1 for the KeyDir kd over the file f
I1(kd, f) ==
    \A k \in DOMAIN kd :
        LET frames == Decode(f).frames
            i == LastFrameFor(frames, k)
            p == kd[k][1]
            l == kd[k][2]
        IN /\ i > 0
           /\ frames[i].values # None
           /\ p + l <= Len(f)
           /\ SubSeq(f, p + 1, p + l) = frames[i].values[1]

\* C6: invariant I1 holds after every completed operation (open, set, delete,
\* compact): for every KeyDir entry (k, (p, l)), bytes [p, p+l) of the current
\* log file are the value bytes of the most recent Put frame for k in that
\* file, and no Tombstone frame for k follows that Put.
C6_InvariantI1 ==
    opened => I1(keydir, file)

\* C7: invariant I4: after open returns, the file is a concatenation of
\* complete frames only; a partial header, a partial key or a value reaching
\* beyond end of file makes open truncate the file to the start of that
\* partial record.
C7_InvariantI4 ==
    (opened /\ last.op = "open" /\ torn # None /\ WellFormed(torn[1].base))
        => (WellFormed(file) /\ file = torn[1].base)

\* C8: after a compact() that returns ok, total_disk_size equals the
\* live_disk_size reported immediately before the compact, and
\* garbage_disk_size is 0.
C8_CompactRemovesGarbage ==
    [][(opened /\ last'.op = "compact" /\ last'.ok)
         => /\ Status'.total_disk_size = Status.live_disk_size
            /\ Status'.garbage_disk_size = 0]_vars

\* C9: apart from a trailing partial record at open time, no failing step of
\* a public operation has its error dropped while the operation reports
\* success; this includes the compact() run inside open_with_compact.
C9_NoErrorDropped ==
    ~(last.op = "open_with_compact" /\ last.ok /\ last.inner = "err")

\* C10: when the append inside set(k, v) or delete(k) fails at any step, the
\* operation returns an error and the KeyDir is exactly what it was before the
\* call; the KeyDir changes only in a call whose append was flushed whole.
C10_FailedAppendKeepsKeyDir ==
    [][/\ (last'.op \in {"set", "delete"} /\ ~last'.ok) => keydir' = keydir
       /\ (last'.op \in {"set", "delete"} /\ keydir' # keydir)
            => (last'.ok /\ Len(file') > Len(file) /\ WellFormed(SubSeq(file', Len(file) + 1, Len(file'))))]_vars

\* a set of a new key failed after part of its frame reached the file
C10_Witness ==
    /\ opened /\ last.op \in {"set", "delete"} /\ ~last.ok
    /\ ~WellFormed(file)
    /\ DOMAIN keydir # {}

\* what get and scan return on a fresh engine opened on the file contents f
OpenObserved(f) ==
    LET b == build_keydir(f)
    IN [gets |-> [k \in Keys |-> get(b.keydir, b.file, k)],
        scan |-> scan(b.keydir, b.file)]

\* C11: when compact() fails before the rename, the engine's Log and KeyDir
\* are unchanged and the file at the original path is byte-for-byte unchanged,
\* so get, scan, set and delete afterwards behave as if compact() had not
\* been called.
C11_FailedCompactLeavesEngine ==
    [][(opened /\ last'.op = "compact" /\ ~last'.ok)
         => /\ file' = file /\ disk' = disk /\ attached' = attached
            /\ keydir' = keydir /\ opened'
            /\ Observed' = Observed
            /\ \A k \in Keys :
                 /\ write_entry(file', k, None) = write_entry(file, k, None)
                 /\ \A v \in Values :
                      write_entry(file', k, Some(v)) = write_entry(file, k, Some(v))]_vars

\* a compact() that failed after it had written frames to the temporary file
C11_Witness ==
    /\ opened /\ last.op = "compact" /\ ~last.ok
    /\ tmp # <<>>
    /\ Cardinality(DOMAIN keydir) >= 2

\* C12: open_with_compact(path, r) runs compact() before it returns exactly
\* when garbage_disk_size / total_disk_size > r for the just-opened file
\* (never for an empty file); whenever the threshold was exceeded and
\* open_with_compact returns ok, the returned engine has been compacted
\* (garbage_disk_size = 0) and its get/scan results equal those of open(path).
C12_OpenWithCompact ==
    [][(last'.op = "open_with_compact")
         => LET b == build_keydir(disk)
                st == status(b.keydir, b.file)
                r == last'.ratio[1]
                exceeded == /\ st.total_disk_size > 0
                            /\ st.garbage_disk_size * r[2] > r[1] * st.total_disk_size
            IN /\ (last'.inner # "none") <=> exceeded
               /\ (exceeded /\ last'.ok)
                    => /\ Status'.garbage_disk_size = 0
                       /\ Observed' = OpenObserved(disk)]_vars

\* sum of key length + value length over the entries of kd with key in S
RECURSIVE PayloadSum(_, _)
PayloadSum(kd, S) ==
    IF S = {} THEN 0
    ELSE LET k == CHOOSE x \in S : TRUE
         IN Len(k) + kd[k][2] + PayloadSum(kd, S \ {k})

\* C13: in every reachable state status() returns keys = number of KeyDir
\* entries, size = sum over the KeyDir of key length + value length,
\* total_disk_size = current file length, live_disk_size = size + 8 * keys,
\* garbage_disk_size = total_disk_size - live_disk_size, name = "Bitcask".
C13_StatusFields ==
    opened =>
        /\ Status.keys = Cardinality(DOMAIN keydir)
        /\ Status.size = PayloadSum(keydir, DOMAIN keydir)
        /\ Status.total_disk_size = Len(file)
        /\ Status.live_disk_size
             = PayloadSum(keydir, DOMAIN keydir) + 8 * Cardinality(DOMAIN keydir)
        /\ Status.garbage_disk_size
             = Len(file) - (PayloadSum(keydir, DOMAIN keydir)
                            + 8 * Cardinality(DOMAIN keydir))
        /\ Status.name = "Bitcask"

\* a status over several live keys, a non-empty value and dead frames
C13_Witness ==
    /\ opened
    /\ Status.keys >= 2
    /\ Status.size >= 2
    /\ Status.garbage_disk_size > 0

\* C14: delete(k) of a key absent from the KeyDir returns ok, changes no
\* get/scan result and appends exactly one Tombstone frame of 8 + len(k)
\* bytes; delete(k); delete(k) shows the same get/scan results as the single
\* delete(k), in the live engine and after a reopen.
C14_DeleteAbsentKey ==
    [][(opened /\ last'.op = "delete")
         => LET k == last'.key[1]
            IN /\ (k \notin DOMAIN keydir)
                    => /\ last'.ok
                       /\ Observed' = Observed
                       /\ Len(file') = Len(file) + 8 + Len(k)
                       /\ file' = file \o to_be_bytes(Len(k))
                                       \o <<255, 255, 255, 255>> \o k
               /\ (last.op = "delete" /\ last.ok /\ last.key = last'.key)
                    => /\ last'.ok
                       /\ Observed' = Observed
                       /\ OpenObserved(disk') = OpenObserved(disk)]_vars

\* a second delete of the same non-empty key has just been appended
C14_Witness ==
    /\ opened /\ last.op = "delete" /\ last.ok
    /\ last.key[1] # <<>>
    /\ Len(file) >= 2 * (8 + Len(last.key[1]))
    /\ SubSeq(file, Len(file) - 2 * (8 + Len(last.key[1])) + 1,
                    Len(file) - (8 + Len(last.key[1])))
         = SubSeq(file, Len(file) - (8 + Len(last.key[1])) + 1, Len(file))
    /\ Observed.scan # <<>>

\* C15: during compact(), for every live key k with KeyDir entry (p, l) the
\* value bytes are those of the old Log at [p, p + l), exactly those bytes are
\* appended as the Put for k in the new Log, and the new KeyDir maps k to the
\* position of that Put's value (stated for a compact() that finds no file at
\* the temporary path).
C15_CompactCopiesOldValues ==
    [][(opened /\ tmp = <<>> /\ last'.op = "compact" /\ last'.ok)
         => \A k \in DOMAIN keydir :
              /\ k \in DOMAIN keydir'
              /\ keydir'[k][2] = keydir[k][2]
              /\ keydir'[k][1] + keydir'[k][2] <= Len(file')
              /\ SubSeq(file', keydir'[k][1] + 1, keydir'[k][1] + keydir'[k][2])
                   = SubSeq(file, keydir[k][1] + 1, keydir[k][1] + keydir[k][2])]_vars

\* C16: compact() builds the new log in a fresh, initially empty file at the
\* temporary path, also when a file already exists there: after a successful
\* compact() the file at the original path is exactly one Put frame per live
\* key and no other bytes.
C16_CompactedFileIsLivePuts ==
    [][(opened /\ last'.op = "compact" /\ last'.ok)
         => LET d == Decode(disk')
            IN /\ d.end = Len(disk')
               /\ Len(d.frames) = Cardinality(DOMAIN keydir)
               /\ \A i \in 1..Len(d.frames) :
                    /\ d.frames[i].values # None
                    /\ d.frames[i].key \in DOMAIN keydir
               /\ \A k \in DOMAIN keydir :
                    \E i \in 1..Len(d.frames) : d.frames[i].key = k]_vars

\* C17: for every key and optional value whose lengths are each in
\* 0 .. 2^31 - 1, an append at end-of-file offset start writes exactly
\* 8 + key_len + value_len bytes (value_len = 0 for a tombstone) and returns
\* value_pos = start + 8 + key_len and value_len; the 32-bit computation of
\* the frame length does not overflow or wrap.
C17_FrameLength ==
    (wl # None /\ wl[1].done)
      => LET c == wl[1]
             vl == IF c.values_len = None THEN 0 ELSE c.values_len[1]
             header == add_limbs(to_limbs(8, 4), to_limbs(c.key_len, 4), 0).limbs
         IN /\ ~c.result.panicked
            /\ c.result.written = add_limbs(header, to_limbs(vl, 4), 0).limbs
            /\ c.result.value_pos = add_limbs(c.start, header, 0).limbs
            /\ c.result.value_len = to_limbs(vl, 2)

\* the (key, values) pairs of a sequence of frames, in file order
FramePairs(frames) ==
    [i \in 1..Len(frames) |-> [key |-> frames[i].key, values |-> frames[i].values]]

\* C18: the log is append-only under set and delete: each successful set or
\* delete leaves the old contents as a prefix and extends the file by exactly
\* one frame, that call's, and the order of the frames in the file is the
\* order of the calls.
C18_AppendOnly ==
    [][(opened /\ last'.op \in {"set", "delete"} /\ last'.ok)
         => LET k == last'.key[1]
                d == DecodeFrom(file', Len(file), <<>>)
            IN /\ Len(file') > Len(file)
               /\ SubSeq(file', 1, Len(file)) = file
               /\ d.end = Len(file')
               /\ FramePairs(d.frames) = <<[key |-> k, values |-> oracle'[k]]>>
               /\ plain' => FramePairs(Decode(file').frames) = hist']_vars

\* three calls on two keys have been appended, the last one a delete
C18_Witness ==
    /\ opened /\ plain /\ last.op = "delete" /\ last.ok
    /\ Len(hist) = 3
    /\ hist[1].values = Some(<<1>>)
    /\ hist[2].key # hist[1].key
    /\ hist[3] = [key |-> hist[1].key, values |-> None]
    /\ FramePairs(Decode(file).frames) = hist

\* C19: after a successful compact() the engine's Log is the file now at the
\* original path: every later set or delete is appended to that file, so a
\* reopen shows get/scan results that include those later operations.
\* (In Spec, plain is FALSE exactly when a compact() has succeeded.)
C19_LogFollowsRename ==
    [][/\ (opened /\ last'.op = "compact" /\ last'.ok)
            => attached' /\ disk' = file'
       /\ (opened /\ ~plain /\ last'.op \in {"set", "delete"} /\ last'.ok)
            => LET k == last'.key[1]
                   o == OpenObserved(disk')
               IN /\ attached' /\ disk' = file'
                  /\ SubSeq(disk', 1, Len(disk)) = disk
                  /\ Len(disk') = Len(disk) + 8 + Len(k)
                                    + (IF oracle'[k] = None THEN 0
                                       ELSE Len(oracle'[k][1]))
                  /\ o.gets[k] = [ok |-> TRUE, value |-> oracle'[k]]
                  /\ IF oracle'[k] = None
                     THEN \A i \in 1..Len(o.scan) : o.scan[i].key # k
                     ELSE \E i \in 1..Len(o.scan) :
                            o.scan[i] = [ok |-> TRUE, key |-> k,
                                         value |-> oracle'[k][1]]]_vars

\* a set of a non-empty value made after a successful compact() that kept
\* another key, and present in the file at the path
C19_Witness ==
    /\ opened /\ ~plain /\ ncompact >= 1
    /\ last.op = "set" /\ last.ok
    /\ oracle[last.key[1]] = Some(<<1>>)
    /\ Len(Decode(disk).frames) >= 2
    /\ OpenObserved(disk).gets[last.key[1]] = [ok |-> TRUE, value |-> Some(<<1>>)]

\* C20: in every state reachable by open, set, delete and compact, including
\* an open on a file with a partial trailing record, the file length is at
\* least size + 8 * keys, so total_disk_size - live_disk_size in status() does
\* not underflow.
C20_NoUnderflow ==
    opened =>
        /\ Len(file) >= Status.size + 8 * Status.keys
        /\ Status.total_disk_size >= Status.live_disk_size
        /\ Status.garbage_disk_size >= 0

\* an engine opened on a file that ended in a partial record, with live keys
\* and no garbage left
C20_Witness ==
    /\ opened /\ ncrash >= 1
    /\ Status.keys >= 1
    /\ Status.size >= 2
    /\ Status.garbage_disk_size = 0

====
